---- MODULE Spec2Model ----
(***************************************************************************)
(* reddit-save: the incremental archive run of save.py (main,              *)
(* process_posts, process_comments, save_paginated_html) over the files    *)
(* that utilities.py reads and writes (get_previous, save_html), and the   *)
(* media dispatcher save_media with its handlers.                          *)
(*                                                                         *)
(* Text is modelled as a sequence of tokens: every marker the regular      *)
(* expressions of get_previous look for is one token, so that writing a    *)
(* page and reading it back is a computation and not the identity.         *)
(***************************************************************************)
EXTENDS Integers, Sequences, FiniteSets, TLC

\* ------------------------------------------------------------------ bounds
MaxRuns == 2
MaxPageSize == 2
Max429 == 3
MaxGallery == 2

\* ------------------------------------------------ the upstream's item space
\* Post ids and comment ids (opaque strings in the code, ordered; integers
\* here so that sorted(key=id) is computable).
PostIds == {1, 2}
CommentIds == {11, 12}
\* comment.replies of each upstream comment: 11 has the replies 12 and 13,
\* 12 (also an item of its own) and 13 (only ever a reply) have none.
replies(c) == IF c = 11 THEN <<12, 13>> ELSE <<>>

Procs == {1, 2}
NoPage == -1

\* ------------------------------------------------------------------- text
Tok(k, id, m) == [k |-> k, id |-> id, m |-> m]
NL == Tok("nl", 0, "")

RECURSIVE Join(_)
\* "\n".join(parts)
Join(parts) ==
  IF Len(parts) = 0 THEN <<>>
  ELSE IF Len(parts) = 1 THEN parts[1]
  ELSE parts[1] \o <<NL>> \o Join(Tail(parts))

InSeq(x, s) == \E i \in 1..Len(s) : s[i] = x
Range(s) == {s[i] : i \in 1..Len(s)}

RECURSIVE Dedup(_, _)
\* for x in xs: if x not in acc: acc.append(x)
Dedup(acc, xs) ==
  IF Len(xs) = 0 THEN acc
  ELSE Dedup(IF InSeq(xs[1], acc) THEN acc ELSE Append(acc, xs[1]), Tail(xs))

RECURSIVE SortedSeq(_)
\* sorted(S) of a set of integers
SortedSeq(S) ==
  IF S = {} THEN <<>>
  ELSE LET m == CHOOSE x \in S : \A y \in S : x <= y
       IN <<m>> \o SortedSeq(S \ {m})

\* Python's s[a:b] for 0 <= a <= b
Slice(s, a, b) ==
  LET lo == IF a > Len(s) THEN Len(s) ELSE a
      hi == IF b > Len(s) THEN Len(s) ELSE b
  IN IF hi <= lo THEN <<>> ELSE SubSeq(s, lo + 1, hi)

\* ---------------------------------------------------------------- templates
\* html/post-div.html, html/comment-div.html, html/username.html: the order of
\* the placeholders and markers in the three template files.
post_div == <<"pstart", "preview", "pend">>
comment_div == <<"cstart", "children", "cend">>
username_html == <<"prev", "next", "posts", "sep", "comments">>

\* ---------------------------------------------------------------- rendering
\* get_post_html: the post template with <!--id--> filled in; the
\* <!--preview--> placeholder is still there.
get_post_html(p) ==
  [i \in 1..Len(post_div) |->
     IF post_div[i] = "pstart" THEN Tok("pstart", p, "")
     ELSE IF post_div[i] = "preview" THEN Tok("preview", 0, "placeholder")
     ELSE Tok("pend", 0, "")]

\* add_media_preview_to_html: a file with an image or video extension replaces
\* the placeholder by an <img>/<video> element, any other file leaves the
\* fragment as it was.
add_media_preview_to_html(post_html, media) ==
  [i \in 1..Len(post_html) |->
     IF post_html[i].k = "preview" /\ media = "img"
       THEN Tok("preview", 0, "img")
       ELSE post_html[i]]

RECURSIVE RenderSlots(_, _, _)
RenderSlots(tpl, fill(_), i) ==
  IF i > Len(tpl) THEN <<>> ELSE fill(tpl[i]) \o RenderSlots(tpl, fill, i + 1)

\* get_comment_html(child, children=False): <!--children--> is left in place.
child_html(c) ==
  LET fill(slot) ==
        IF slot = "cstart" THEN <<Tok("cstart", c, "")>>
        ELSE IF slot = "children" THEN <<Tok("children", 0, "placeholder")>>
        ELSE <<Tok("cend", 0, "")>>
  IN RenderSlots(comment_div, fill, 1)

\* get_comment_html(comment): the comment template with the rendered replies
\* joined by "\n" in place of <!--children-->.
get_comment_html(c) ==
  LET kids == [i \in 1..Len(replies(c)) |-> child_html(replies(c)[i])]
      fill(slot) ==
        IF slot = "cstart" THEN <<Tok("cstart", c, "")>>
        ELSE IF slot = "children" THEN Join(kids)
        ELSE <<Tok("cend", 0, "")>>
  IN RenderSlots(comment_div, fill, 1)

\* save_html: the text written to one output file.  page = NoPage is
\* page=None (the unpaged file).
page_html(posts, comments, page, has_next) ==
  LET fill(slot) ==
        IF slot = "prev" THEN
          IF page = 0 \/ page = NoPage
            THEN <<Tok("prev", 0, "removed")>>
            ELSE <<Tok("prev", page - 1, "link")>>
        ELSE IF slot = "next" THEN
          IF ~has_next \/ page = NoPage
            THEN <<Tok("next", 0, "removed")>>
            ELSE <<Tok("next", page + 1, "link")>>
        ELSE IF slot = "posts" THEN Join(posts)
        ELSE IF slot = "comments" THEN Join(comments)
        ELSE <<Tok("sep", 0, "")>>
  IN RenderSlots(username_html, fill, 1)

\* ------------------------------------------------------------------ parsing
\* position of the first token of kind k at or after i, 0 if there is none
RECURSIVE Find(_, _, _)
Find(h, k, i) ==
  IF i > Len(h) THEN 0 ELSE IF h[i].k = k THEN i ELSE Find(h, k, i + 1)

\* re.findall(r'(<start[\S\n\t\v ]+?<end>)', html): leftmost start marker, the
\* shortest run up to an end marker, then on from behind that end marker.
RECURSIVE FindAll(_, _, _, _)
FindAll(h, startK, endK, i) ==
  LET s == Find(h, startK, i)
      e == IF s = 0 THEN 0 ELSE Find(h, endK, s + 1)
  IN IF s = 0 \/ e = 0 THEN <<>>
     ELSE <<SubSeq(h, s, e)>> \o FindAll(h, startK, endK, e + 1)

\* re.findall(r'id="(.+?)"', html): every id attribute, in text order
RECURSIVE FindIds(_, _)
FindIds(h, i) ==
  IF i > Len(h) THEN <<>>
  ELSE (IF h[i].k \in {"pstart", "cstart"} THEN <<h[i].id>> ELSE <<>>)
       \o FindIds(h, i + 1)

\* the unpaged file left out of the list of files read
matches_pages_only(d) == SortedSeq(DOMAIN d \ {NoPage})

\* get_previous, the list of files read: the page files ascending by page
\* number, then the unpaged file if it exists.
matches(d) ==
  SortedSeq(DOMAIN d \ {NoPage})
    \o (IF NoPage \in DOMAIN d THEN <<NoPage>> ELSE <<>>)

RECURSIVE get_previous_from(_, _, _)
get_previous_from(d, ms, acc) ==
  IF Len(ms) = 0 THEN acc
  ELSE LET h == d[ms[1]]
       IN get_previous_from(d, Tail(ms),
            [ids |-> Dedup(acc.ids, FindIds(h, 1)),
             posts |-> Dedup(acc.posts, FindAll(h, "pstart", "pend", 1)),
             comments |-> Dedup(acc.comments, FindAll(h, "cstart", "cend", 1))])

get_previous(d) ==
  get_previous_from(d, matches(d), [ids |-> <<>>, posts |-> <<>>, comments |-> <<>>])

\* --------------------------------------------------------------- save_media
IMAGE_EXTENSIONS == {"gif", "gifv", "jpg", "jpeg", "png"}
VIDEO_EXTENSIONS == {"mp4"}
PLATFORMS == {"redgifs.com", "imgur.com", "youtube.com"}

NoMedia == "None"
FetchFailed == "-1"
Raised == "Raise"

\* What save_media looks at in a post: whether url ends with the permalink,
\* the last two labels of the host, the lowercased text after the last "." of
\* the url cut at "?", whether "gallery" occurs in the url, and whether the
\* post has a preview attribute.
Domains ==
  {"gfycat.com", "imgur.com", "reddit.com", "redd.it", "redgifs.com",
   "youtube.com", "reddituploads.com", "example.com"}
Extensions == {"png", "gifv", "mp4", "html"}
PostUrls ==
  [self : BOOLEAN, domain : Domains, extension : Extensions,
   gallery : BOOLEAN, preview : BOOLEAN]

\* the host tests placed before the extension test
save_media_route_host_first(u) ==
  IF u.self THEN NoMedia
  ELSE IF u.domain = "gfycat.com" THEN FetchFailed
  ELSE IF u.domain = "imgur.com" /\ u.gallery THEN FetchFailed
  ELSE IF u.domain = "reddit.com" /\ u.gallery THEN "gallery"
  ELSE IF u.domain = "redd.it" THEN "vreddit"
  ELSE IF u.domain = "imgur.com" /\ u.extension # "gifv" THEN "imgur"
  ELSE IF u.domain \in PLATFORMS THEN "ytdlp"
  ELSE IF u.extension \in IMAGE_EXTENSIONS \cup VIDEO_EXTENSIONS THEN "direct"
  ELSE IF u.domain = "reddituploads.com" THEN
         IF ~u.preview THEN FetchFailed ELSE "reddituploads"
  ELSE NoMedia

\* save_media's routing: the handler called, or the value returned at once.
save_media_route(u) ==
  IF u.self THEN NoMedia
  ELSE IF u.domain = "gfycat.com" THEN FetchFailed
  ELSE IF u.domain = "imgur.com" /\ u.gallery THEN FetchFailed
  ELSE IF u.extension \in IMAGE_EXTENSIONS \cup VIDEO_EXTENSIONS THEN "direct"
  ELSE IF u.domain = "reddit.com" /\ u.gallery THEN "gallery"
  ELSE IF u.domain = "redd.it" THEN "vreddit"
  ELSE IF u.domain = "imgur.com" /\ u.extension # "gifv" THEN "imgur"
  ELSE IF u.domain \in PLATFORMS THEN "ytdlp"
  ELSE IF u.domain = "reddituploads.com" THEN
         IF ~u.preview THEN FetchFailed ELSE "reddituploads"
  ELSE NoMedia

\* What each handler can hand back to save_media's caller: a saved file
\* ("img": a name with an image or video extension, "other": any other name),
\* None, -1, or an exception that the handler does not catch.
handler_results(h) ==
  IF h = "direct" THEN {"img", FetchFailed}
  ELSE IF h = "gallery" THEN {"img", "other", NoMedia, FetchFailed, Raised}
  ELSE IF h = "vreddit" THEN {"img", "other", FetchFailed}
  ELSE IF h = "imgur" THEN {"img", FetchFailed}
  ELSE IF h = "ytdlp" THEN {"img", "other", NoMedia, FetchFailed}
  ELSE IF h = "reddituploads" THEN {"img", "other", FetchFailed, Raised}
  ELSE {h}

save_media_results(u) == handler_results(save_media_route(u))

\* every value save_media can hand to process_posts, over all posts
media_results == UNION {save_media_results(u) : u \in PostUrls}

\* ------------------------------------------------------------------- state
VARIABLES
  dir,          \* the output files: page number (NoPage: the unpaged file) -> text
  blfile,       \* the blacklist file: its lines
  postfiles,    \* the ids with a posts/{id}.html
  runs,         \* invocations started so far
  inv,          \* per invocation: position and locals of main()
  call          \* one call of save_media: position and locals

run_vars == <<dir, blfile, postfiles, runs, inv>>
vars == <<dir, blfile, postfiles, runs, inv, call>>

\* what is remembered of an interrupted invocation: the corpus it read and the
\* new items it was working on (the posts by their ids, the media results
\* being the network's)
NoRun ==
  [interrupted |-> FALSE, existing_ids |-> <<>>, new_posts |-> <<>>,
   new_comments |-> <<>>, existing_posts |-> <<>>, existing_comments |-> <<>>]

Idle ==
  [pc |-> "idle", page_size |-> 0, blacklist_file |-> FALSE,
   existing_ids |-> <<>>, existing_posts_html |-> <<>>,
   existing_comments_html |-> <<>>,
   new_posts |-> <<>>, new_comments |-> <<>>,
   blacklisted_ids |-> {}, idx |-> 1, new_html |-> <<>>,
   posts_html |-> <<>>, comments_html |-> <<>>,
   page_count |-> 0, i |-> 0,
   \* history of this invocation
   skipped |-> FALSE, fetched |-> {}, failed |-> {}, wrote |-> {},
   emitted |-> <<>>, dir_at_start |-> <<>>, same_page_size |-> FALSE,
   overlap |-> FALSE, resumed |-> FALSE, prev_run |-> NoRun,
   \* the page size of the last invocation started, and whether all
   \* invocations so far were given the same page size
   last_size |-> NoPage, fixed |-> TRUE,
   \* what the invocation before this one left behind
   prev_page_size |-> NoPage, prev_failed |-> {}]

NoCall ==
  [pc |-> "none",
   post |-> [self |-> TRUE, domain |-> "example.com", extension |-> "html",
             gallery |-> FALSE, preview |-> FALSE],
   route |-> "", status |-> "", sleep |-> 0, delays |-> <<>>,
   media |-> <<>>, idx |-> 1, got |-> <<>>, filenames |-> <<>>,
   result |-> ""]

Init ==
  /\ dir = <<>>
  /\ blfile = <<>>
  /\ postfiles = {}
  /\ runs = 0
  /\ inv = [p \in Procs |-> Idle]
  /\ call = NoCall

Set(self, r) == inv' = [inv EXCEPT ![self] = r]

\* ------------------------------------------------------------------ main()
\* the filter on the known ids left out
new_items_unfiltered(items, existing_ids) == SortedSeq(items)

\* sorted([p for p in items if p.id not in existing_ids], key=lambda p: p.id)
new_items(items, existing_ids) ==
  SortedSeq({p \in items : ~InSeq(p, existing_ids)})

\* main() up to process_posts: parse_arguments (--page-size, --blacklist),
\* get_previous, and the upstream's items (distinct ids, in any order)
\* without the known ids, sorted by id.
StartWith(self, limit, sizes, posts, comments) ==
  /\ inv[self].pc = "idle"
  /\ runs < limit
  /\ runs' = runs + 1
  /\ \E prev \in {get_previous(dir)} :
     \E k \in sizes, b \in BOOLEAN :
     \E ps \in SUBSET posts, cs \in SUBSET comments :
       Set(self, [Idle EXCEPT
            !.pc = "process_posts", !.page_size = k, !.blacklist_file = b,
            !.existing_ids = prev.ids,
            !.existing_posts_html = prev.posts,
            !.existing_comments_html = prev.comments,
            !.new_posts = new_items(ps, prev.ids),
            !.new_comments = new_items(cs, prev.ids),
            !.skipped = (ps \cup cs) \cap Range(prev.ids) # {},
            !.dir_at_start = dir,
            !.same_page_size = inv[self].prev_page_size = k,
            !.resumed =
               /\ inv[self].prev_run.interrupted
               /\ new_items(ps, inv[self].prev_run.existing_ids)
                    = inv[self].prev_run.new_posts
               /\ new_items(cs, inv[self].prev_run.existing_ids)
                    = inv[self].prev_run.new_comments,
            !.prev_run = inv[self].prev_run,
            !.last_size = k,
            !.fixed = inv[self].fixed /\ inv[self].last_size \in {NoPage, k},
            !.overlap = \E other \in Procs \ {self} :
                           inv[other].pc \notin {"idle", "done", "aborted"},
            !.prev_failed = IF b THEN inv[self].prev_failed ELSE {}])
  /\ UNCHANGED <<dir, blfile, postfiles>>

Start(self) == StartWith(self, MaxRuns, 0..MaxPageSize, PostIds, CommentIds)

\* the process ends: main() returned, an exception left it, or it was
\* interrupted
Exit(self) ==
  /\ inv[self].pc \in {"done", "aborted", "interrupted"}
  /\ Set(self, [Idle EXCEPT
        !.prev_run =
           IF inv[self].pc = "interrupted"
             THEN [interrupted |-> TRUE,
                   existing_ids |-> inv[self].existing_ids,
                   new_posts |-> inv[self].new_posts,
                   new_comments |-> inv[self].new_comments,
                   existing_posts |->
                     [j \in 1..Len(inv[self].existing_posts_html) |->
                        inv[self].existing_posts_html[j][1].id],
                   existing_comments |-> inv[self].existing_comments_html]
             ELSE NoRun,
        !.last_size = inv[self].last_size,
        !.fixed = inv[self].fixed,
        !.prev_page_size =
           IF inv[self].pc = "done" THEN inv[self].page_size ELSE NoPage,
        !.prev_failed =
           IF inv[self].blacklist_file THEN inv[self].failed ELSE {}])
  /\ UNCHANGED <<dir, blfile, postfiles, runs>>

\* the new comments placed behind the existing ones
process_comments_appended(comments, existing_comments_html) ==
  existing_comments_html
    \o [j \in 1..Len(comments) |-> get_comment_html(comments[j])]

\* process_comments
process_comments(comments, existing_comments_html) ==
  IF Len(comments) = 0 THEN existing_comments_html
  ELSE [j \in 1..Len(comments) |-> get_comment_html(comments[j])]
         \o existing_comments_html

Max(a, b) == IF a >= b THEN a ELSE b

\* floor instead of ceiling division
page_count_floor(length, page_size) == length \div page_size

\* save_paginated_html: (length + page_size - 1) // page_size
page_count(length, page_size) == (length + page_size - 1) \div page_size

\* main() from the return of process_posts to the first file written:
\* process_comments, then save_paginated_html up to its loop.
after_posts(me, posts_html) ==
  LET comments_html == process_comments(me.new_comments,
                                        me.existing_comments_html)
      n == IF me.page_size = 0 THEN 0
           ELSE page_count(Max(Len(posts_html), Len(comments_html)),
                           me.page_size)
  IN [me EXCEPT !.posts_html = posts_html, !.comments_html = comments_html,
                !.page_count = n, !.i = 0,
                !.pc = IF n <= 0 THEN "save_html" ELSE "page_loop"]

\* the file is not read before it is rewritten
read_blacklist_none(blacklist_file, lines) == {}

\* blacklisted_ids = {line.strip() for line in f if line.strip()}
read_blacklist(blacklist_file, lines) ==
  IF blacklist_file THEN Range(lines) ELSE {}

\* process_posts up to its loop: read the blacklist; without new posts return
\* existing_posts_html at once.
ReadBlacklist(self) ==
  /\ inv[self].pc = "process_posts"
  /\ LET me == inv[self]
         bl == read_blacklist(me.blacklist_file, blfile)
     IN IF Len(me.new_posts) = 0
          THEN Set(self, after_posts([me EXCEPT !.blacklisted_ids = bl],
                                     me.existing_posts_html))
          ELSE Set(self, [me EXCEPT !.pc = "post_loop", !.blacklisted_ids = bl,
                            !.idx = 1, !.new_html = <<>>])
  /\ UNCHANGED <<dir, blfile, postfiles, runs>>

\* one iteration of "for post in posts"
ProcessPost(self) ==
  /\ inv[self].pc = "post_loop"
  /\ inv[self].idx <= Len(inv[self].new_posts)
  /\ LET me == inv[self]
         post == me.new_posts[me.idx]
     IN IF post \in me.blacklisted_ids
          THEN /\ Set(self, [me EXCEPT !.idx = me.idx + 1])
               /\ UNCHANGED postfiles
          ELSE \E media \in media_results :
                 IF media = Raised
                   THEN /\ Set(self, [me EXCEPT !.pc = "aborted",
                                        !.fetched = @ \cup {post}])
                        /\ UNCHANGED postfiles
                 ELSE IF media = FetchFailed
                   THEN /\ Set(self, [me EXCEPT !.idx = me.idx + 1,
                                        !.blacklisted_ids = @ \cup {post},
                                        !.fetched = @ \cup {post},
                                        !.failed = @ \cup {post}])
                        /\ UNCHANGED postfiles
                 ELSE LET post_html ==
                            IF media # NoMedia
                              THEN add_media_preview_to_html(get_post_html(post), media)
                              ELSE get_post_html(post)
                      IN /\ Set(self, [me EXCEPT !.idx = me.idx + 1,
                                         !.new_html = Append(@, post_html),
                                         !.fetched = @ \cup {post},
                                         !.wrote = @ \cup {post}])
                         /\ postfiles' = postfiles \cup {post}
  /\ UNCHANGED <<dir, blfile, runs>>

\* after the loop: rewrite the blacklist, return posts_html + existing
WriteBlacklist(self) ==
  /\ inv[self].pc = "post_loop"
  /\ inv[self].idx > Len(inv[self].new_posts)
  /\ LET me == inv[self]
     IN /\ blfile' = IF me.blacklist_file
                       THEN SortedSeq(me.blacklisted_ids) ELSE blfile
        /\ Set(self, after_posts(me, me.new_html \o me.existing_posts_html))
  /\ UNCHANGED <<dir, postfiles, runs>>

\* save_html's open(file_name, "w"): create or overwrite one output file
WriteFile(d, page, text) ==
  [n \in DOMAIN d \cup {page} |-> IF n = page THEN text ELSE d[n]]

\* one iteration of "for i in range(page_count)"
SavePage(self) ==
  /\ inv[self].pc = "page_loop"
  /\ LET me == inv[self]
         start_idx == me.i * me.page_size
         end_idx == (me.i + 1) * me.page_size
         posts_on_page == Slice(me.posts_html, start_idx, end_idx)
         comments_on_page == Slice(me.comments_html, start_idx, end_idx)
         has_next == me.i < me.page_count - 1
     IN /\ dir' = WriteFile(dir, me.i,
                     page_html(posts_on_page, comments_on_page, me.i, has_next))
        /\ Set(self, [me EXCEPT
              !.pc = IF me.i + 1 < me.page_count THEN "page_loop" ELSE "save_html",
              !.i = me.i + 1,
              !.emitted = Append(@, [page |-> me.i, posts |-> posts_on_page,
                                     comments |-> comments_on_page,
                                     has_next |-> has_next])])
  /\ UNCHANGED <<blfile, postfiles, runs>>

\* save_html(posts_html, comments_html, location, html_file, None, False)
SaveUnpaged(self) ==
  /\ inv[self].pc = "save_html"
  /\ dir' = WriteFile(dir, NoPage,
               page_html(inv[self].posts_html, inv[self].comments_html,
                         NoPage, FALSE))
  /\ Set(self, [inv[self] EXCEPT !.pc = "done"])
  /\ UNCHANGED <<blfile, postfiles, runs>>

Step(self) ==
  \/ Start(self)
  \/ ReadBlacklist(self)
  \/ ProcessPost(self)
  \/ WriteBlacklist(self)
  \/ SavePage(self)
  \/ SaveUnpaged(self)
  \/ Exit(self)

\* invocations one after the other
Next == Step(1) /\ UNCHANGED call

Spec == Init /\ [][Next]_vars

\* The process is stopped between two steps of main(): before or inside
\* process_posts, after the blacklist write, between two page files, or before
\* the unpaged file.
Interrupt(self) ==
  /\ inv[self].pc \in {"process_posts", "post_loop", "page_loop", "save_html"}
  /\ Set(self, [inv[self] EXCEPT !.pc = "interrupted"])
  /\ UNCHANGED <<dir, blfile, postfiles, runs>>

\* invocations one after the other, any of which may be interrupted
NextInterrupted == (Step(1) \/ Interrupt(1)) /\ UNCHANGED call

SpecInterrupted == Init /\ [][NextInterrupted]_vars

\* two invocations against the same directory and blacklist file, their
\* steps interleaved in any way
\* main() up to process_posts for one of two concurrent invocations: each
\* process is started once, and the upstream they archive holds posts only.
StartConcurrent(self) ==
  StartWith(self, Cardinality(Procs), 0..MaxPageSize, PostIds, {})

StepConcurrent(self) ==
  \/ StartConcurrent(self)
  \/ ReadBlacklist(self)
  \/ ProcessPost(self)
  \/ WriteBlacklist(self)
  \/ SavePage(self)
  \/ SaveUnpaged(self)
  \/ Exit(self)

NextConcurrent == (\E self \in Procs : StepConcurrent(self)) /\ UNCHANGED call

SpecConcurrent == Init /\ [][NextConcurrent]_vars

\* ------------------------------------------------- save_media, step by step
\* One call of save_media(post, location) with the network's answers chosen
\* as the handlers ask for them.
Ret(r) == call' = [call EXCEPT !.pc = "returned", !.result = r]

\* save_media: route the post
SaveMedia ==
  /\ call.pc = "save_media"
  /\ LET r == save_media_route(call.post)
     IN IF r \in {NoMedia, FetchFailed}
          THEN call' = [call EXCEPT !.pc = "returned", !.route = r, !.result = r]
          ELSE call' = [call EXCEPT !.pc = r, !.route = r]

\* _handle_direct_media: one GET inside try/except; a 2xx answer with an
\* image or video content type is saved, anything else is -1.
HandleDirectMedia ==
  /\ call.pc = "direct"
  /\ \E answer \in {"exception", "status", "content-type", "ok"} :
       IF answer = "ok"
         THEN call' = [call EXCEPT !.pc = "returned", !.result = "files",
                                   !.filenames = <<0>>]
         ELSE Ret(FetchFailed)

\* save_media's reddituploads.com branch: post.preview['images'][0]['source']
\* ['url'] outside any try, then _handle_direct_media.
HandleRedditUploads ==
  /\ call.pc = "reddituploads"
  /\ \E shape \in {"ok", "KeyError"} :
       IF shape = "ok"
         THEN call' = [call EXCEPT !.pc = "direct"]
         ELSE Ret(Raised)

\* _handle_reddit_gallery: resp = requests.get(json_url); sleep = 1
GalleryGet ==
  /\ call.pc = "gallery"
  /\ \E answer \in {"exception", "429", "200", "404"} :
       IF answer = "exception"
         THEN Ret(Raised)
         ELSE call' = [call EXCEPT !.pc = "gallery_loop", !.status = answer,
                                   !.sleep = 1]

\* a delay that grows by a constant
backoff_linear(sleep) == sleep + 1

\* sleep *= 2
backoff(sleep) == sleep * 2

\* while resp.status_code == 429: sleep, get again, double the delay.  The
\* server answers 429 at most Max429 times in a row.
GalleryRetry ==
  /\ call.pc = "gallery_loop"
  /\ call.status = "429"
  /\ \E answer \in {"exception", "429", "200", "404"} :
       /\ answer = "429" => Len(call.delays) + 1 < Max429
       /\ IF answer = "exception"
            THEN call' = [call EXCEPT !.pc = "returned", !.result = Raised,
                                      !.delays = Append(@, call.sleep)]
            ELSE call' = [call EXCEPT !.status = answer,
                                      !.delays = Append(@, call.sleep),
                                      !.sleep = backoff(call.sleep)]

GalleryItems == [m : BOOLEAN, u : BOOLEAN]
GalleryMedia == UNION {[1..n -> GalleryItems] : n \in 0..MaxGallery}

\* data = resp.json(); post_data = data[0]["data"]["children"][0]["data"];
\* media = post_data.get("media_metadata"); if not media: return None
GalleryParse ==
  /\ call.pc = "gallery_loop"
  /\ call.status # "429"
  /\ \E body \in {"listing", "other"} :
       /\ call.status # "200" => body = "other"
       /\ IF body = "other"
            THEN Ret(Raised)
            ELSE \E media \in GalleryMedia :
                   IF Len(media) = 0
                     THEN Ret(NoMedia)
                     ELSE call' = [call EXCEPT !.pc = "gallery_items",
                                               !.media = media, !.idx = 1]

\* one iteration of "for idx, data in enumerate(list(media.values()), 1)"
GalleryItem ==
  /\ call.pc = "gallery_items"
  /\ call.idx <= Len(call.media)
  /\ LET data == call.media[call.idx]
     IN IF ~data.m \/ ~data.u
          THEN call' = [call EXCEPT !.idx = call.idx + 1,
                                    !.got = Append(@, "skipped")]
          ELSE \E answer \in {"exception", "200", "404"} :
                 IF answer = "exception"
                   THEN call' = [call EXCEPT !.pc = "returned",
                                   !.result = FetchFailed,
                                   !.got = Append(@, "exception")]
                 ELSE IF answer = "200"
                   THEN call' = [call EXCEPT !.idx = call.idx + 1,
                                   !.got = Append(@, "saved"),
                                   !.filenames = Append(@, call.idx)]
                 ELSE call' = [call EXCEPT !.idx = call.idx + 1,
                                 !.got = Append(@, "status")]

\* return filenames if filenames else None
GalleryReturn ==
  /\ call.pc = "gallery_items"
  /\ call.idx > Len(call.media)
  /\ IF Len(call.filenames) > 0
       THEN call' = [call EXCEPT !.pc = "returned", !.result = "files"]
       ELSE Ret(NoMedia)

\* _handle_vreddit: everything inside try/except
HandleVreddit ==
  /\ call.pc = "vreddit"
  /\ \E answer \in {"exception", "ok"} :
       IF answer = "ok"
         THEN call' = [call EXCEPT !.pc = "returned", !.result = "files",
                                   !.filenames = <<0>>]
         ELSE Ret(FetchFailed)

\* _handle_imgur: the image extensions in turn, the first 2xx answer wins
HandleImgur ==
  /\ call.pc = "imgur"
  /\ \E first \in 0..Cardinality(IMAGE_EXTENSIONS) :
       IF first > 0
         THEN call' = [call EXCEPT !.pc = "returned", !.result = "files",
                                   !.filenames = <<first>>]
         ELSE Ret(FetchFailed)

\* _handle_ytdlp: an error of the extractor is -1; afterwards the file is
\* looked up by its name's prefix, None when there is none.
HandleYtdlp ==
  /\ call.pc = "ytdlp"
  /\ \E answer \in {"exception", "nothing", "ok"} :
       IF answer = "ok"
         THEN call' = [call EXCEPT !.pc = "returned", !.result = "files",
                                   !.filenames = <<0>>]
         ELSE IF answer = "nothing" THEN Ret(NoMedia) ELSE Ret(FetchFailed)

NextMedia ==
  /\ \/ SaveMedia
     \/ HandleDirectMedia
     \/ HandleRedditUploads
     \/ GalleryGet
     \/ GalleryRetry
     \/ GalleryParse
     \/ GalleryItem
     \/ GalleryReturn
     \/ HandleVreddit
     \/ HandleImgur
     \/ HandleYtdlp
  /\ UNCHANGED run_vars

InitMedia ==
  /\ dir = <<>>
  /\ blfile = <<>>
  /\ postfiles = {}
  /\ runs = 0
  /\ inv = [p \in Procs |-> Idle]
  /\ call \in {[NoCall EXCEPT !.pc = "save_media", !.post = u] : u \in PostUrls}

SpecMedia == InitMedia /\ [][NextMedia]_vars

\* The program runs on: a call that can take a step takes it.
SpecMediaFair == SpecMedia /\ WF_vars(NextMedia)

\* ================================================================== claims
RECURSIVE Flatten(_)
Flatten(parts) ==
  IF Len(parts) = 0 THEN <<>> ELSE parts[1] \o Flatten(Tail(parts))

TopIds(frags) == [i \in 1..Len(frags) |-> frags[i][1].id]
NoDup(s) == \A i, j \in 1..Len(s) : i # j => s[i] # s[j]
Contains(h, f) ==
  \E i \in 1..(Len(h) - Len(f) + 1) : SubSeq(h, i, i + Len(f) - 1) = f
Occurrences(h, k, id) == Cardinality({i \in 1..Len(h) : h[i].k = k /\ h[i].id = id})

C2_Idempotent ==
  \A self \in Procs :
    ( /\ inv[self].pc = "done"
      /\ inv[self].same_page_size
      /\ Len(inv[self].new_posts) = 0
      /\ Len(inv[self].new_comments) = 0 )
    => dir = inv[self].dir_at_start

\* C3 (Pagination): with page size k > 0, save_paginated_html calls save_html
\* for exactly ceil(max(len(posts), len(comments)) / k) pages 0, 1, ..; page i
\* gets posts[i*k:(i+1)*k] and comments[i*k:(i+1)*k]; the pages' posts (and
\* comments) in page order are the whole list; has_next is false on the last
\* page only, and the previous link is removed in the file of page 0 only.
C3_Pagination ==
  \A self \in Procs :
    (inv[self].pc \in {"save_html", "done"} /\ inv[self].page_size > 0) =>
      LET me == inv[self]
          k == me.page_size
          e == me.emitted
          n == Max(Len(me.posts_html), Len(me.comments_html))
          part(l, i) ==
            [j \in 1..(IF i * k <= Len(l) THEN k ELSE Max(0, Len(l) - (i - 1) * k))
               |-> l[(i - 1) * k + j]]
      IN /\ Len(e) * k >= n
         /\ Len(e) > 0 => (Len(e) - 1) * k < n
         /\ \A i \in 1..Len(e) :
              /\ e[i].page = i - 1
              /\ e[i].posts = part(me.posts_html, i)
              /\ e[i].comments = part(me.comments_html, i)
              /\ e[i].has_next = (i < Len(e))
              /\ LET text == dir[i - 1]
                 IN /\ (text[Find(text, "prev", 1)].m = "removed") = (i = 1)
                    /\ (text[Find(text, "next", 1)].m = "removed") = (i = Len(e))
         /\ Flatten([i \in 1..Len(e) |-> e[i].posts]) = me.posts_html
         /\ Flatten([i \in 1..Len(e) |-> e[i].comments]) = me.comments_html

C3_Witness ==
  \E self \in Procs :
    /\ inv[self].pc = "save_html"
    /\ inv[self].page_size = 2
    /\ Len(inv[self].emitted) = 2
    /\ Len(inv[self].posts_html) = 1
    /\ Len(inv[self].comments_html) = 3

\* C4 (Blacklist growth): with a blacklist file configured, a post whose fetch
\* returned -1 in a run is in the blacklist file after that run, and the next
\* run does not call save_media for it.
C4_BlacklistGrowth ==
  \A self \in Procs :
    /\ (inv[self].pc \in {"done", "aborted"} /\ inv[self].blacklist_file)
         => inv[self].failed \subseteq Range(blfile)
    /\ inv[self].fetched \cap inv[self].prev_failed = {}

\* C5 (Failure locality): no post's media fetch ends the run; process_posts
\* always gets to the blacklist write and main() to the output files.
C5_FailureLocality ==
  \A self \in Procs : inv[self].pc # "aborted"

\* C7 (FetchFailed means not rendered): after a run, a post whose fetch
\* returned -1 has no fragment in any output file and no post page written in
\* the run, and every post that was fetched with another result has exactly one
\* fragment in the unpaged file and its post page.
C7_FailedNotRendered ==
  \A self \in Procs :
    inv[self].pc \in {"done", "aborted"} =>
      /\ \A p \in inv[self].failed :
           /\ p \notin inv[self].wrote
           /\ \A f \in DOMAIN dir : Occurrences(dir[f], "pstart", p) = 0
      /\ \A p \in inv[self].wrote :
           /\ p \in postfiles
           /\ NoPage \in DOMAIN dir
           /\ Occurrences(dir[NoPage], "pstart", p) = 1

\* C8 (Blacklist monotonicity): no step of any run removes an id from the
\* blacklist file.
C8_BlacklistMonotone ==
  [][Range(blfile) \subseteq Range(blfile')]_vars

C8_Witness ==
  \E self \in Procs :
    /\ inv[self].pc \in {"page_loop", "save_html"}
    /\ inv[self].blacklist_file
    /\ inv[self].failed # {}
    /\ inv[self].blacklisted_ids \ inv[self].failed # {}
    /\ Range(blfile) = inv[self].blacklisted_ids

\* C6 (Gallery all-or-nothing): when the download of a gallery item fails, by
\* an exception or by a status other than 200, _handle_reddit_gallery
\* returns -1.
C6_GalleryAllOrNothing ==
  ( /\ call.pc = "returned"
    /\ call.route = "gallery"
    /\ \E i \in 1..Len(call.got) : call.got[i] \in {"exception", "status"} )
  => call.result = FetchFailed

RecognizedExtension(u) ==
  ~u.self /\ u.extension \in IMAGE_EXTENSIONS \cup VIDEO_EXTENSIONS

\* C9 as stated (Dispatch priority): a url with an image or video extension
\* that is not the post's permalink is routed to _handle_direct_media whatever
\* its host.
C9_ExtensionFirst ==
  (call.pc # "save_media" /\ RecognizedExtension(call.post))
    => call.route = "direct"

DeadHost(u) ==
  u.domain = "gfycat.com" \/ (u.domain = "imgur.com" /\ u.gallery)

\* C9 amended: a url with an image or video extension that is not the post's
\* permalink is routed to _handle_direct_media and to no host handler, unless
\* its host is gfycat.com or it is an imgur.com url with "gallery" in it: for
\* these save_media returns -1 without any download.
C9_ExtensionFirstButDeadHosts ==
  (call.pc # "save_media" /\ RecognizedExtension(call.post)) =>
    IF DeadHost(call.post)
      THEN call.route = FetchFailed /\ call.result = FetchFailed
      ELSE call.route = "direct" /\ call.pc \in {"direct", "returned"}

C9_Witness ==
  /\ call.pc = "returned"
  /\ call.route = "direct"
  /\ call.post.extension = "png"
  /\ call.post.domain = "reddit.com"
  /\ call.post.gallery

\* C10 (Gallery backoff): the first delay is 1, each later delay is at least
\* twice the one before; the items are only read from a 200 answer and a 429
\* alone never makes the handler return; and the retry loop is left once the
\* answers stop being 429.
C10_Backoff ==
  /\ [](/\ Len(call.delays) > 0 => call.delays[1] = 1
        /\ \A i \in 1..(Len(call.delays) - 1) :
             call.delays[i + 1] >= 2 * call.delays[i]
        /\ call.pc = "gallery_items" => call.status = "200"
        /\ (call.pc = "returned" /\ call.status = "429")
             => call.result = Raised)
  /\ (call.pc = "gallery_loop" ~> call.pc # "gallery_loop")

C10_Witness ==
  /\ call.pc = "gallery_items"
  /\ call.status = "200"
  /\ Len(call.delays) = Max429

\* C11 (Write/load round-trip): when a run has written its lists with
\* save_paginated_html and save_html and the directory holds no other output
\* file, get_previous on the directory gives back exactly the post fragments
\* and the comment fragments written, text for text, in the order written.
C11_RoundTrip ==
  \A self \in Procs :
    ( /\ inv[self].pc = "done"
      /\ DOMAIN dir = (0..(inv[self].page_count - 1)) \cup {NoPage} )
    => LET back == get_previous(dir)
       IN /\ back.posts = inv[self].posts_html
          /\ back.comments = inv[self].comments_html

\* the ids heading the fragments that get_previous's expressions find in the
\* unpaged file
FinalTopIds ==
  IF NoPage \in DOMAIN dir
    THEN Range(TopIds(FindAll(dir[NoPage], "pstart", "pend", 1)))
           \cup Range(TopIds(FindAll(dir[NoPage], "cstart", "cend", 1)))
    ELSE {}

\* an item that invocation p archived has no fragment in the final unpaged file
LostItem(p) ==
  (inv[p].wrote \cup Range(inv[p].new_comments)) \ FinalTopIds # {}

\* an id that invocation p wrote to the blacklist is not in the final file
LostBlacklisted(p) ==
  inv[p].blacklist_file /\ inv[p].failed \ Range(blfile) # {}

BothDone == \A p \in Procs : inv[p].pc = "done"

\* C12 (Concurrent invocations are unsafe): when two invocations have both
\* run to their end and an item one of them archived, or an id one of them
\* blacklisted, is missing from the final files, the two overlapped in time;
\* two invocations one after the other lose nothing.  (The witness is the
\* lost update itself.)
C12_LostUpdateOnlyInterleaved ==
  (BothDone /\ \E p \in Procs : LostItem(p) \/ LostBlacklisted(p))
    => \E p \in Procs : inv[p].overlap

C12_Witness ==
  /\ BothDone
  /\ \E p \in Procs : inv[p].overlap
  /\ \E p \in Procs : LostItem(p)
  /\ \E p \in Procs : LostBlacklisted(p)

\* C13 (Resumable after interruption): a complete run that follows an
\* interrupted run and gets the same new items from the upstream ends with the
\* corpus that the interrupted run would have written had it run to its end:
\* the new comments rendered, in ascending id order, before the comments that
\* were there, the new posts in ascending id order before the posts that were
\* there, and no id twice.
C13_Resumable ==
  \A self \in Procs :
    (inv[self].pc = "done" /\ inv[self].resumed) =>
      LET me == inv[self]
          was == me.prev_run
          ids == TopIds(me.posts_html)
          fresh == Range(ids) \ Range(was.existing_posts)
      IN /\ me.comments_html
              = process_comments(was.new_comments, was.existing_comments)
         /\ NoDup(ids)
         /\ ids = SortedSeq(fresh) \o was.existing_posts

\* the post and comment elements of a text, each from its opening <div> to the
\* marker and </div> that close it, the replies nested in a comment being
\* part of the comment
RECURSIVE Elements(_, _, _, _)
Elements(h, i, depth, start) ==
  IF i > Len(h) THEN <<>>
  ELSE IF h[i].k \in {"pstart", "cstart"}
    THEN Elements(h, i + 1, depth + 1, IF depth = 0 THEN i ELSE start)
  ELSE IF h[i].k \in {"pend", "cend"} /\ depth > 0
    THEN (IF depth = 1 THEN <<SubSeq(h, start, i)>> ELSE <<>>)
           \o Elements(h, i + 1, depth - 1, start)
  ELSE Elements(h, i + 1, depth, start)

\* C14 (Archived items are never lost): every post or comment fragment that
\* stood in the unpaged file when a run started stands in the unpaged file,
\* with the same text, when the run has ended, whatever the page sizes.
C14_NeverLost ==
  \A self \in Procs :
    (inv[self].pc = "done" /\ NoPage \in DOMAIN inv[self].dir_at_start) =>
      LET before == Elements(inv[self].dir_at_start[NoPage], 1, 0, 0)
      IN \A j \in 1..Len(before) : Contains(dir[NoPage], before[j])

\* C15 (Skipped only if archived): main() drops an upstream item exactly when
\* its id is in existing_ids; so for every id the upstream can return that is
\* in the existing_ids of a run, the post or comment fragments recovered by
\* that run's get_previous hold a fragment headed by the id (an id found only
\* inside another item's fragment is not enough).
C15_SkippedOnlyIfTopLevel ==
  \A self \in Procs :
    inv[self].pc # "idle" =>
      \A id \in PostIds \cup CommentIds :
        InSeq(id, inv[self].existing_ids) =>
          id \in Range(TopIds(inv[self].existing_posts_html))
                   \cup Range(TopIds(inv[self].existing_comments_html))

Ascending(s) == \A i, j \in 1..Len(s) : i < j => s[i] < s[j]
Position(s, x) == CHOOSE i \in 1..Len(s) : s[i] = x

\* C16 (Order stability): when a run has ended, its lists are the fragments
\* of the new items, in ascending id order, followed by the fragments that
\* get_previous recovered, in the order recovered; and when all runs so far
\* were given one page size, any two fragments that stood in the unpaged
\* file when the run started and stand in it when the run has ended are in
\* the same order as before.
C16_OrderStable ==
  \A self \in Procs :
    inv[self].pc = "done" =>
      LET me == inv[self]
          new_comments_html ==
            [j \in 1..Len(me.new_comments) |-> get_comment_html(me.new_comments[j])]
      IN /\ me.posts_html = me.new_html \o me.existing_posts_html
         /\ Ascending(TopIds(me.new_html))
         /\ me.comments_html = new_comments_html \o me.existing_comments_html
         /\ Ascending(me.new_comments)
         /\ (me.fixed /\ NoPage \in DOMAIN me.dir_at_start) =>
              LET before == Elements(me.dir_at_start[NoPage], 1, 0, 0)
                  after == Elements(dir[NoPage], 1, 0, 0)
              IN \A i, j \in 1..Len(before) :
                   (i < j /\ InSeq(before[i], after) /\ InSeq(before[j], after))
                     => Position(after, before[i]) < Position(after, before[j])

C16_Witness ==
  \E self \in Procs :
    /\ inv[self].pc = "done"
    /\ inv[self].fixed
    /\ inv[self].page_size = 1
    /\ Len(inv[self].new_comments) > 0
    /\ Len(inv[self].new_html) > 0
    /\ Len(inv[self].existing_posts_html) > 0
    /\ Len(Elements(inv[self].dir_at_start[NoPage], 1, 0, 0)) >= 2

====
